---- MODULE Spec2Model ----
(***************************************************************************)
(* Gilded Rose (python/gilded_rose.py): an ordered list of items, each     *)
(* with a name, a sell_in counter and a quality, advanced by one day per   *)
(* GildedRose.update_quality call.  The updater is chosen by the item's    *)
(* exact name (ItemUpdaterFactory.get_updater).                            *)
(***************************************************************************)
EXTENDS Integers, Sequences, FiniteSets, TLC

----------------------------------------------------------------------------
(* Bounds of the model *)

\* update_quality is called at most MaxCalls times in a behaviour
MaxCalls == 36
\* initial sell_in of a single-item inventory ranges over -SellInBelow..MaxSellIn
MaxSellIn == 12
SellInBelow == 2
\* initial quality of a single-item inventory ranges over
\* -QualityBelow .. 50 + QualityAbove (no inbound validation in Item.__init__)
QualityBelow == 2
QualityAbove == 2
\* longest inventory built from the sample items
MaxItems == 3

----------------------------------------------------------------------------
(* Item names *)

AgedBrie == "Aged Brie"
Backstage == "Backstage passes to a TAFKAL80ETC concert"
Sulfuras == "Sulfuras, Hand of Ragnaros"
Conjured == "Conjured Mana Cake"
NormalName == "Normal Item"

\* names that differ from a known one in case, whitespace or a prefix/suffix
NearMissNames == {"aged brie", "Aged Brie ", "Conjured", "Sulfuras, Hand of Ragnaros!"}

Names == {AgedBrie, Backstage, Sulfuras, Conjured, NormalName} \cup NearMissNames

\* Item.__init__
Item(name, sell_in, quality) == [name |-> name, sell_in |-> sell_in, quality |-> quality]

max(a, b) == IF a >= b THEN a ELSE b
min(a, b) == IF a <= b THEN a ELSE b

----------------------------------------------------------------------------
(* The updaters.  Each X_apply is the body of X.update_quality up to, but   *)
(* not including, the call of _clamp_quality; X_update_quality is the whole *)
(* method.                                                                  *)

\* variant: the clamp has lost its floor
clamp_quality_no_floor(item) == [item EXCEPT !.quality = min(50, item.quality)]

\* ItemQualityUpdater._clamp_quality
clamp_quality(item) == [item EXCEPT !.quality = max(0, min(50, item.quality))]

\* variant: the branch tests sell_in before it is decremented
NormalItemUpdater_apply_late_decrement(item) ==
    LET degrade_amount == IF item.sell_in < 0 THEN 2 ELSE 1
    IN  [item EXCEPT !.sell_in = @ - 1, !.quality = @ - degrade_amount]

NormalItemUpdater_apply(item) ==
    LET it == [item EXCEPT !.sell_in = @ - 1]
        degrade_amount == IF it.sell_in < 0 THEN 2 ELSE 1
    IN  [it EXCEPT !.quality = @ - degrade_amount]

NormalItemUpdater_update_quality(item) == clamp_quality(NormalItemUpdater_apply(item))

\* variant: sell_in stops at 0
AgedBrieUpdater_apply_floor_sell_in(item) ==
    LET it == [item EXCEPT !.sell_in = max(0, @ - 1)]
        increase_amount == IF item.sell_in - 1 < 0 THEN 2 ELSE 1
    IN  [it EXCEPT !.quality = @ + increase_amount]

AgedBrieUpdater_apply(item) ==
    LET it == [item EXCEPT !.sell_in = @ - 1]
        increase_amount == IF it.sell_in < 0 THEN 2 ELSE 1
    IN  [it EXCEPT !.quality = @ + increase_amount]

AgedBrieUpdater_update_quality(item) == clamp_quality(AgedBrieUpdater_apply(item))

\* variant: the tier boundaries are inclusive
BackstagePassUpdater_apply_inclusive(item) ==
    LET it == [item EXCEPT !.sell_in = @ - 1]
    IN  IF it.sell_in < 0 THEN [it EXCEPT !.quality = 0]
        ELSE IF it.sell_in <= 5 THEN [it EXCEPT !.quality = @ + 3]
        ELSE IF it.sell_in <= 10 THEN [it EXCEPT !.quality = @ + 2]
        ELSE [it EXCEPT !.quality = @ + 1]

BackstagePassUpdater_apply(item) ==
    LET it == [item EXCEPT !.sell_in = @ - 1]
    IN  IF it.sell_in < 0 THEN [it EXCEPT !.quality = 0]
        ELSE IF it.sell_in < 5 THEN [it EXCEPT !.quality = @ + 3]
        ELSE IF it.sell_in < 10 THEN [it EXCEPT !.quality = @ + 2]
        ELSE [it EXCEPT !.quality = @ + 1]

\* variant: a pass past the concert loses value instead of dropping to 0
BackstagePassUpdater_update_quality_no_reset(item) ==
    LET it == [item EXCEPT !.sell_in = @ - 1]
    IN  clamp_quality(IF it.sell_in < 0 THEN [it EXCEPT !.quality = @ - 3]
                      ELSE BackstagePassUpdater_apply(item))

BackstagePassUpdater_update_quality(item) == clamp_quality(BackstagePassUpdater_apply(item))

\* variant: the legendary item is clamped like the others
SulfurasUpdater_update_quality_clamped(item) == clamp_quality(item)

SulfurasUpdater_update_quality(item) == item

\* variant: the post-expiry amount is not doubled
ItemUpdater_apply_no_doubling(item) ==
    LET it == [item EXCEPT !.sell_in = @ - 1]
        degrade_amount == IF it.sell_in >= 0 THEN 2 ELSE 3
    IN  [it EXCEPT !.quality = @ - degrade_amount]

\* class ItemUpdater: the updater registered for "Conjured Mana Cake"
ItemUpdater_apply(item) ==
    LET it == [item EXCEPT !.sell_in = @ - 1]
        degrade_amount == IF it.sell_in >= 0 THEN 2 ELSE 4
    IN  [it EXCEPT !.quality = @ - degrade_amount]

ItemUpdater_update_quality(item) == clamp_quality(ItemUpdater_apply(item))

----------------------------------------------------------------------------
(* ItemUpdaterFactory *)

\* variant: no entry for "Conjured Mana Cake"
updaters_no_conjured ==
    [n \in {AgedBrie, Backstage, Sulfuras} |->
        CASE n = AgedBrie  -> "AgedBrieUpdater"
          [] n = Backstage -> "BackstagePassUpdater"
          [] n = Sulfuras  -> "SulfurasUpdater"]

updaters ==
    [n \in {AgedBrie, Backstage, Sulfuras, Conjured} |->
        CASE n = AgedBrie  -> "AgedBrieUpdater"
          [] n = Backstage -> "BackstagePassUpdater"
          [] n = Sulfuras  -> "SulfurasUpdater"
          [] n = Conjured  -> "ItemUpdater"]

\* variant: the lookup ignores case and surrounding whitespace
get_updater_normalised(item_name) ==
    LET key == IF item_name \in {"aged brie", "Aged Brie "} THEN AgedBrie ELSE item_name
    IN  IF key \in DOMAIN updaters THEN updaters[key] ELSE "NormalItemUpdater"

get_updater(item_name) ==
    IF item_name \in DOMAIN updaters THEN updaters[item_name] ELSE "NormalItemUpdater"

\* updater.update_quality(item): dynamic dispatch on the updater's class.
\* .item is the item afterwards; .unclamped is item.quality as it stood when
\* the method reached its _clamp_quality call (SulfurasUpdater has no such call).
dispatch(updater, item) ==
    CASE updater = "AgedBrieUpdater" ->
           [item |-> AgedBrieUpdater_update_quality(item),
            unclamped |-> AgedBrieUpdater_apply(item).quality]
      [] updater = "BackstagePassUpdater" ->
           [item |-> BackstagePassUpdater_update_quality(item),
            unclamped |-> BackstagePassUpdater_apply(item).quality]
      [] updater = "SulfurasUpdater" ->
           [item |-> SulfurasUpdater_update_quality(item),
            unclamped |-> item.quality]
      [] updater = "ItemUpdater" ->
           [item |-> ItemUpdater_update_quality(item),
            unclamped |-> ItemUpdater_apply(item).quality]
      [] OTHER ->
           [item |-> NormalItemUpdater_update_quality(item),
            unclamped |-> NormalItemUpdater_apply(item).quality]

----------------------------------------------------------------------------
(* GildedRose *)

\* variant: the loop carries the previous item's quality into the next item
RECURSIVE update_loop_leaky(_, _, _)
update_loop_leaky(its, trace, k) ==
    IF k > Len(its) THEN [items |-> its, trace |-> trace]
    ELSE LET item == IF k > 1 THEN [its[k] EXCEPT !.quality = its[k - 1].quality]
                     ELSE its[k]
             updater == get_updater(item.name)
             r == dispatch(updater, item)
         IN  update_loop_leaky([its EXCEPT ![k] = r.item],
                               Append(trace, [idx |-> k, updater |-> updater,
                                              unclamped |-> r.unclamped]),
                               k + 1)

\* the for loop of GildedRose.update_quality from position k on; trace is the
\* list of (position, updater class, pre-clamp quality) of the iterations run
RECURSIVE update_loop(_, _, _)
update_loop(its, trace, k) ==
    IF k > Len(its) THEN [items |-> its, trace |-> trace]
    ELSE LET item == its[k]
             updater == get_updater(item.name)
             r == dispatch(updater, item)
             \* the next iteration starts from the list and the trace as they are now
         IN  CHOOSE out \in
                 { update_loop(its2, trace2, k + 1) :
                       its2 \in { [its EXCEPT ![k] = r.item] },
                       trace2 \in { Append(trace, [idx |-> k, updater |-> updater,
                                                   unclamped |-> r.unclamped]) } } : TRUE

\* the list built in the __main__ block
DemoItems ==
    << Item(AgedBrie, 2, 0),
       Item(Backstage, 15, 20),
       Item(Sulfuras, 0, 80),
       Item(NormalName, 10, 20),
       Item(Conjured, 3, 6) >>

\* four backstage passes, one per tier after the first day
TierItems ==
    << Item(Backstage, 12, 20), Item(Backstage, 10, 20),
       Item(Backstage, 5, 20), Item(Backstage, 0, 20) >>

SingleLists ==
    { << Item(n, s, q) >> : n \in Names,
                            s \in (0 - SellInBelow)..MaxSellIn,
                            q \in (0 - QualityBelow)..(50 + QualityAbove) }

SampleItems == { DemoItems[i] : i \in 1..Len(DemoItems) }

SampleLists == UNION { [1..n -> SampleItems] : n \in 2..MaxItems }

InitialLists == SingleLists \cup SampleLists \cup {DemoItems, TierItems}

VARIABLES
    items,       \* GildedRose.items
    init_items,  \* the items as they were constructed
    prev,        \* the items before the latest update_quality call
    trace,       \* the iterations of the latest update_quality call
    calls        \* number of update_quality calls so far

vars == << items, init_items, prev, trace, calls >>

\* GildedRose.__init__
Init ==
    /\ items \in InitialLists
    /\ init_items = items
    /\ prev = items
    /\ trace = << >>
    /\ calls = 0

\* GildedRose.update_quality
update_quality ==
    /\ calls < MaxCalls
    /\ LET r == update_loop(items, << >>, 1)
       IN  /\ items' = r.items
           /\ trace' = r.trace
    /\ prev' = items
    /\ calls' = calls + 1
    /\ UNCHANGED init_items

Next == update_quality

Spec == Init /\ [][Next]_vars

\* the caller keeps advancing days
FairSpec == Spec /\ WF_vars(update_quality)

Idx == 1..Len(items)

NonLegendary(i) == items[i].name # Sulfuras

\* the change of item.quality made by the latest call before _clamp_quality ran
Delta(i) == trace[i].unclamped - prev[i].quality

----------------------------------------------------------------------------
\* C1: after every update_quality call, every item not named "Sulfuras, Hand
\* of Ragnaros" has 0 <= quality <= 50, whatever integer its quality was
\* before the first call; a default item constructed with sell_in 0 and
\* quality 1 has quality 0 after one call.
ClampInvariant ==
    /\ calls > 0 =>
         \A i \in Idx : NonLegendary(i) =>
             (0 <= items[i].quality /\ items[i].quality <= 50)
    /\ (calls = 1 /\ init_items = << Item(NormalName, 0, 1) >>) =>
         items[1].quality = 0

\* a non-legendary item constructed with a quality outside [0,50] has been updated
ClampWitness ==
    /\ calls > 0
    /\ \E i \in Idx :
         /\ NonLegendary(i)
         /\ (init_items[i].quality < 0 \/ init_items[i].quality > 50)
         /\ items[i].quality \in {0, 50}

\* C2: an item named "Sulfuras, Hand of Ragnaros" keeps its initial quality
\* and its initial sell_in after any number of update_quality calls, also
\* when its quality is above 50.
LegendaryInvariance ==
    \A i \in Idx :
        items[i].name = Sulfuras =>
            /\ items[i].quality = init_items[i].quality
            /\ items[i].sell_in = init_items[i].sell_in

\* a Sulfuras of quality 80 after several calls
LegendaryWitness ==
    /\ calls >= 2
    /\ \E i \in Idx : items[i].name = Sulfuras /\ items[i].quality = 80

\* C3: every update_quality call decreases the sell_in of every
\* non-legendary item by exactly 1, so after n calls sell_in is the initial
\* sell_in minus n; there is no lower bound, and a negative sell_in stays
\* negative.
SellInDecrease ==
    \A i \in Idx :
        NonLegendary(i) =>
            /\ items[i].sell_in = init_items[i].sell_in - calls
            /\ calls > 0 => items[i].sell_in = prev[i].sell_in - 1
            /\ prev[i].sell_in < 0 => items[i].sell_in < 0

\* a non-legendary item updated again after its sell_in had gone negative
SellInWitness ==
    /\ calls >= 2
    /\ \E i \in Idx :
         NonLegendary(i) /\ prev[i].sell_in < 0 /\ init_items[i].sell_in >= 0

\* C4: one call on a backstage pass, with s the sell_in after the decrement:
\* s < 0 sets quality to 0; 0 <= s < 5 adds 3; 5 <= s < 10 adds 2; s >= 10
\* adds 1; the result is then clamped to [0,50].
EventTicketTiers ==
    calls > 0 =>
      \A i \in Idx :
        items[i].name = Backstage =>
          LET s == items[i].sell_in
              q == prev[i].quality
              raw == IF s < 0 THEN 0
                     ELSE IF s < 5 THEN q + 3
                     ELSE IF s < 10 THEN q + 2
                     ELSE q + 1
          IN  /\ s = prev[i].sell_in - 1
              /\ trace[i].unclamped = raw
              /\ items[i].quality = (IF raw < 0 THEN 0 ELSE IF raw > 50 THEN 50 ELSE raw)

\* passes whose sell_in after the decrement is 11, 9, 4 and -1 got +1, +2, +3
\* and 0
EventTicketWitness ==
    /\ calls = 1
    /\ Len(items) = 4
    /\ \A i \in Idx : items[i].name = Backstage /\ prev[i].quality = 20
    /\ << items[1].sell_in, items[2].sell_in, items[3].sell_in, items[4].sell_in >>
         = << 11, 9, 4, -1 >>
    /\ << items[1].quality, items[2].quality, items[3].quality, items[4].quality >>
         = << 21, 22, 23, 0 >>

\* C5: before the clamp, one call changes quality by +1 (Aged Brie), -2
\* (Conjured Mana Cake), -1 (default) when the sell_in after the decrement
\* is >= 0, and by exactly double that, +2, -4, -2, when it is < 0.
PostExpiryAcceleration ==
    calls > 0 =>
      \A i \in Idx :
        (NonLegendary(i) /\ items[i].name # Backstage) =>
          LET base == IF items[i].name = AgedBrie THEN 1
                      ELSE IF items[i].name = Conjured THEN -2
                      ELSE -1
          IN  Delta(i) = (IF items[i].sell_in < 0 THEN 2 * base ELSE base)

\* a Conjured item updated past its sell-by date lost 4, unclamped
PostExpiryWitness ==
    /\ calls > 0
    /\ \E i \in Idx :
         /\ items[i].name = Conjured
         /\ items[i].sell_in < 0
         /\ Delta(i) = -4
         /\ items[i].quality = prev[i].quality - 4

\* C6: get_updater resolves exactly the four known names to their own
\* updater classes; every other name, near-misses included, gets the normal
\* updater: sell_in - 1, quality - 1 if the resulting sell_in >= 0 else - 2,
\* clamped to [0,50].
PolicySelection ==
    calls > 0 =>
      \A i \in Idx :
        LET n == prev[i].name
            u == trace[i].updater
        IN  /\ (u = "AgedBrieUpdater") <=> (n = "Aged Brie")
            /\ (u = "BackstagePassUpdater") <=> (n = "Backstage passes to a TAFKAL80ETC concert")
            /\ (u = "SulfurasUpdater") <=> (n = "Sulfuras, Hand of Ragnaros")
            /\ (u = "ItemUpdater") <=> (n = "Conjured Mana Cake")
            /\ n \notin {"Aged Brie", "Backstage passes to a TAFKAL80ETC concert",
                         "Sulfuras, Hand of Ragnaros", "Conjured Mana Cake"} =>
                 LET s == prev[i].sell_in - 1
                     raw == prev[i].quality - (IF s >= 0 THEN 1 ELSE 2)
                 IN  /\ u = "NormalItemUpdater"
                     /\ items[i].sell_in = s
                     /\ items[i].quality = (IF raw < 0 THEN 0 ELSE IF raw > 50 THEN 50 ELSE raw)

\* an item whose name is a near-miss of a known name has been updated and
\* lost quality as a default item does
PolicyWitness ==
    /\ calls > 0
    /\ \E i \in Idx :
         /\ items[i].name \in NearMissNames
         /\ trace[i].updater = "NormalItemUpdater"
         /\ items[i].quality < prev[i].quality

\* C7: one call on the list of the __main__ block yields (Aged Brie, 1, 1),
\* (Backstage passes, 14, 21), (Sulfuras, 0, 80), (Normal Item, 9, 19),
\* (Conjured Mana Cake, 2, 4), in this order.
EndToEnd ==
    (calls = 1 /\ init_items = DemoItems) =>
        items = << Item("Aged Brie", 1, 1),
                   Item("Backstage passes to a TAFKAL80ETC concert", 14, 21),
                   Item("Sulfuras, Hand of Ragnaros", 0, 80),
                   Item("Normal Item", 9, 19),
                   Item("Conjured Mana Cake", 2, 4) >>

\* the list of the __main__ block after one call
EndToEndWitness ==
    calls = 1 /\ init_items = DemoItems /\ prev = DemoItems /\ Len(trace) = 5

\* the quality an updater leaves before the clamp, pre-expiry and post-expiry
PreExpiry(n, q) ==
    IF n = AgedBrie THEN q + 1
    ELSE IF n = Backstage THEN q + 3
    ELSE IF n = Conjured THEN q - 2
    ELSE q - 1

PostExpiry(n, q) ==
    IF n = AgedBrie THEN q + 2
    ELSE IF n = Backstage THEN 0
    ELSE IF n = Conjured THEN q - 4
    ELSE q - 2

\* C8: for a non-legendary item, the call that brings sell_in from 1 to 0
\* applies the pre-expiry rate (default -1, Conjured -2, Aged Brie +1,
\* Backstage +3) and the next call, which brings sell_in from 0 to -1, is
\* the one that applies the post-expiry rule (default -2, Conjured -4, Aged
\* Brie +2, Backstage set to 0).
DecrementFirst ==
    [][\A i \in Idx :
         NonLegendary(i) =>
           /\ items[i].sell_in = 1 =>
                /\ items'[i].sell_in = 0
                /\ trace'[i].unclamped = PreExpiry(items[i].name, items[i].quality)
           /\ items[i].sell_in = 0 =>
                /\ items'[i].sell_in = -1
                /\ trace'[i].unclamped = PostExpiry(items[i].name, items[i].quality)
      ]_vars

\* an item constructed with sell_in 1: its first call used the pre-expiry
\* rate, its second call, just made, the post-expiry rule
DecrementFirstWitness ==
    /\ calls = 2
    /\ \E i \in Idx :
         /\ NonLegendary(i)
         /\ init_items[i].sell_in = 1
         /\ prev[i].sell_in = 0
         /\ items[i].sell_in = -1
         /\ prev[i].quality = PreExpiry(items[i].name, init_items[i].quality)
         /\ trace[i].unclamped = PostExpiry(items[i].name, prev[i].quality)
         /\ prev[i].quality \in 5..45

Injective(f) == \A a, b \in DOMAIN f : f[a] = f[b] => a = b
Perms(n) == { f \in [1..n -> 1..n] : Injective(f) }
Permute(seq, p) == [k \in 1..Len(seq) |-> seq[p[k]]]

\* C9: an update_quality call keeps the number of items, their order and
\* their names, runs the loop body once per item, in order, and gives every
\* item the (sell_in, quality) that depends on its own (name, sell_in,
\* quality) only: updating the item alone gives the same, and updating a
\* permutation of the list gives the permutation of the results.
BatchFrame ==
    calls > 0 =>
      /\ Len(items) = Len(prev)
      /\ Len(items) = Len(init_items)
      /\ Len(trace) = Len(items)
      /\ \A i \in Idx :
           /\ items[i].name = prev[i].name
           /\ items[i].name = init_items[i].name
           /\ trace[i].idx = i
           /\ items[i] = update_loop(<< prev[i] >>, << >>, 1).items[1]
           /\ NonLegendary(i) => items[i].sell_in = prev[i].sell_in - 1
      /\ \A p \in Perms(Len(prev)) :
           update_loop(Permute(prev, p), << >>, 1).items = Permute(items, p)

\* a list of three items of three different categories has been updated
BatchWitness ==
    /\ calls > 0
    /\ Len(items) = 3
    /\ items[1].name = Conjured
    /\ items[2].name = Sulfuras
    /\ items[3].name = AgedBrie
    /\ items[1] # prev[1]
    /\ items[3] # prev[3]

\* the value quality settles at
FixedQuality(n) == IF n = AgedBrie THEN 50 ELSE 0

Stabilised ==
    \A i \in Idx : NonLegendary(i) => items[i].quality = FixedQuality(items[i].name)

\* between two calls quality moves in one direction only, once within [0,50]
Monotone ==
    calls > 0 =>
      \A i \in Idx :
        (NonLegendary(i) /\ prev[i].quality \in 0..50) =>
          /\ items[i].name = AgedBrie => items[i].quality >= prev[i].quality
          /\ items[i].name \notin {AgedBrie, Backstage} =>
               items[i].quality <= prev[i].quality

\* a backstage pass is worth 0 after every call that leaves its sell_in negative
ExpiredPassWorthless ==
    calls > 0 =>
      \A i \in Idx :
        (items[i].name = Backstage /\ items[i].sell_in < 0) => items[i].quality = 0

\* C10: under repeated calls the quality of every non-legendary item
\* eventually reaches a value it keeps for ever: 50 for Aged Brie, 0 for
\* default, Conjured and backstage items (a backstage pass has quality 0
\* after every call that leaves its sell_in negative); on the way, once
\* quality is within [0,50], it never increases from call to call for
\* default and Conjured items and never decreases for Aged Brie.
Stabilisation ==
    /\ <>[]Stabilised
    /\ [](Monotone /\ ExpiredPassWorthless)

\* an item constructed away from its fixed quality has reached it and kept it
\* over the latest call
StabilisationWitness ==
    /\ calls > 0
    /\ \E i \in Idx :
         /\ NonLegendary(i)
         /\ init_items[i].quality \in 0..50
         /\ init_items[i].quality # FixedQuality(items[i].name)
         /\ init_items[i].sell_in > 0
         /\ prev[i].quality = FixedQuality(items[i].name)
         /\ items[i].quality = FixedQuality(items[i].name)

====
